---- MODULE Spec2Model ----
(***************************************************************************)
(* InputHandler (src/src/js/InputHandler.js): the mediator between the     *)
(* colorpicker's text field and the widget's color.                        *)
(*                                                                         *)
(* JavaScript values are records [t, s]: t is the type tag and s the       *)
(* characters of a string (or, for a Color instance, of the text its       *)
(* toString(format) renders).  Strings are sequences of characters, so     *)
(* that stripping a leading '#' is computed and not assumed.               *)
(***************************************************************************)
EXTENDS Naturals, Sequences, FiniteSets, TLC

\* ------------------------------------------------------------------ bounds
\* How many times bind() may be called without an unbind() in between.
MaxBind == 2
\* Nesting depth at which the synchronous dispatch is cut off (never reached
\* by the code: see NoOverflow).
MaxDepth == 6

\* ------------------------------------------------------------ JS values
Str(s) == [t |-> "string", s |-> s]
Null == [t |-> "null", s |-> <<>>]
Bool(b) == [t |-> "boolean", s |-> IF b THEN <<"true">> ELSE <<>>]
False == Bool(FALSE)
Num == [t |-> "number", s |-> <<>>]
ColorObj(s) == [t |-> "Color", s |-> s]
TypeError == [t |-> "TypeError", s |-> <<>>]

EmptyStr == Str(<<>>)

\* The texts the model draws from: empty, no hash, one leading hash, two
\* leading hashes, a hash that does not lead.
Strs == { <<>>, <<"a">>, <<"#", "a">>, <<"#", "#", "a">>, <<"a", "#">> }

\* The texts a field holds and a user types.
FieldTexts == { <<>>, <<"a">>, <<"#", "a">> }

StrVals == { Str(s) : s \in Strs }

\* JavaScript truthiness: null, undefined, false and '' are falsy; a non-zero
\* number and any object (a Color instance) are truthy.
Truthy(v) == \/ v.t \in {"number", "Color"}
             \/ (v.t \in {"string", "boolean"} /\ v.s # <<>>)

IsString(v) == v.t = "string"

\* ------------------------------------------------- getFormattedColor
\* String.prototype.replace(/^#/g, ''): '^' matches at index 0 only (no m
\* flag), so at most one '#' is removed whatever the g flag.
StripHash(s) == IF s # <<>> /\ Head(s) = "#" THEN Tail(s) ELSE s

\* colorpicker.resolveColor(val), by the behaviour of the widget's resolver:
\*   "same"  no extension resolves the text: it is returned as it is
\*   "hash"  the text is canonicalised to carry one leading '#'
\*   "empty" resolution fails with the empty string
\*   "null" / "false"  resolution fails with a non-string
StringResolvers == {"same", "hash", "empty"}
Resolvers == StringResolvers \cup {"null", "false"}

resolveColor(mode, v) ==
  CASE mode = "same" -> v
    [] mode = "hash" -> IF v.s # <<>> /\ Head(v.s) = "#" THEN v ELSE Str(<<"#">> \o v.s)
    [] mode = "empty" -> EmptyStr
    [] mode = "null" -> Null
    [] OTHER -> False

OptionValues == {"true", "false", "undefined"}

\* getFormattedColor(val = null): raw is the argument, safe what
\* colorpicker.getSafeColorString() returns, uhp options.useHashPrefix.
\* val.replace on a non-string raises a TypeError.
getFormattedColor(raw, safe, uhp, mode) ==
  LET v1 == IF Truthy(raw) THEN raw ELSE safe
  IN IF ~Truthy(v1) THEN EmptyStr
     ELSE LET v2 == resolveColor(mode, v1)
          IN IF uhp = "false"
             THEN (IF IsString(v2) THEN Str(StripHash(v2.s)) ELSE TypeError)
             ELSE v2


\* ------------------------------------------------------------------ state
VARIABLES
  pc,                \* "new" before the constructor has run, "ready" after
  input,             \* this.input !== false (the Bound Field is present)
  value,             \* the field's value property (characters)
  disabled,          \* the field's disabled property
  subs,              \* handlers subscribed under the .colorpicker namespace
  useHashPrefix,     \* colorpicker.options.useHashPrefix
  autoInputFallback, \* colorpicker.options.autoInputFallback
  resolver,          \* how colorpicker.resolveColor behaves
  lastEvent,         \* colorpicker.lastEvent: [alias, e]
  cp,                \* colorpicker.color: [safe, invalid]
  log                \* what the latest call did, in order: [k, v, c, d]

vars == << pc, input, value, disabled, subs, useHashPrefix, autoInputFallback,
           resolver, lastEvent, cp, log >>

options == << useHashPrefix, autoInputFallback, resolver >>

\* colorpicker.color, seen through the two questions the handler asks of it:
\* getSafeColorString() (a string, or null when unavailable) and
\* isInvalidColor().
SafeStrings == { Null, Str(<<"#", "a">>) }
CpStates == [safe : SafeStrings, invalid : BOOLEAN]

\* What colorpicker.setValue(val) does in answer to a forwarded text: the
\* color it ends up holding, and whether it then calls update().
Reactions == [cp : CpStates, upd : BOOLEAN]

NoEvent == [alias |-> "none", e |-> "none"]

NoColor == [safe |-> Null, invalid |-> FALSE]

\* One thing a call did: k names it, v is the value involved, c the color a
\* notification carries, d the nesting depth of the call that did it.
Entry(k, v, c, d) == [k |-> k, v |-> v, c |-> c, d |-> d]

\* The part of the state a synchronous dispatch changes.
Now == [value |-> value, lastEvent |-> lastEvent, cp |-> cp, log |-> <<>>]

Logged(M, k, v, d) == [M EXCEPT !.log = Append(@, Entry(k, v, NoColor, d))]

\* ---------------------------------------------------------------- methods
\* hasInput(), lines 161-163.
hasInput == input

getValueOfEmpty(M) == IF ~hasInput THEN EmptyStr ELSE Str(M.value)

\* getValue(), lines 88-94.
getValueOf(M) == IF ~hasInput THEN False ELSE Str(M.value)

getValue == getValueOf(Now)

\* isDisabled(), lines 169-171.
isDisabled == hasInput /\ disabled

\* getFormattedColor() of the widget's color.
formatted(M) == getFormattedColor(Null, M.cp.safe, useHashPrefix, resolver)

preventsUpdateWhenFalse(M) ==
  /\ autoInputFallback = "false"
  /\ (M.cp.invalid \/ M.lastEvent.alias = "input.keyup")

\* update(), lines 208-214.
preventsUpdate(M) ==
  /\ autoInputFallback # "true"
  /\ (M.cp.invalid \/ M.lastEvent.alias = "input.keyup")

RECURSIVE setValueM(_, _, _, _)
RECURSIVE updateM(_, _, _)
RECURSIVE handlerM(_, _, _, _)
RECURSIVE deliverM(_, _, _, _, _)
RECURSIVE cpSetValueM(_, _, _, _)

\* jQuery delivers an event of the given kind to each of the n subscribed
\* handlers in turn, synchronously.
deliverM(M, kind, n, r, d) ==
  IF n = 0 THEN M
  ELSE deliverM(handlerM(M, kind, r, d), kind, n - 1, r, d)

setValueMAlways(M, val, r, d) ==
  IF ~hasInput THEN M
  ELSE LET M1 == Logged(M, "setValue", val, d)
           v == IF Truthy(val) THEN val ELSE EmptyStr
           M2 == Logged([M1 EXCEPT !.value = v.s], "write", v, d)
           M3 == [M2 EXCEPT !.log = Append(@, Entry("trigger", v, M2.cp, d))]
       IN deliverM(M3, "change", subs.change, r, d + 1)

setValueMNoNorm(M, val, r, d) ==
  IF ~hasInput THEN M
  ELSE LET M1 == Logged(M, "setValue", val, d)
           v == IF Truthy(val) THEN val ELSE EmptyStr
       IN IF val = Str(M1.value) THEN M1
          ELSE LET M2 == Logged([M1 EXCEPT !.value = v.s], "write", v, d)
                   M3 == [M2 EXCEPT !.log = Append(@, Entry("trigger", v, M2.cp, d))]
               IN deliverM(M3, "change", subs.change, r, d + 1)

setValueMNoGuard(M, val, r, d) ==
  LET M1 == Logged(M, "setValue", val, d)
      v == IF Truthy(val) THEN val ELSE EmptyStr
  IN IF v = Str(M1.value) THEN M1
     ELSE LET M2 == Logged([M1 EXCEPT !.value = v.s], "write", v, d)
              M3 == [M2 EXCEPT !.log = Append(@, Entry("trigger", v, M2.cp, d))]
          IN deliverM(M3, "change", subs.change, r, d + 1)

\* setValue(val), lines 104-131, at nesting depth d.
setValueM(M, val, r, d) ==
  IF ~hasInput THEN M
  ELSE LET M1 == Logged(M, "setValue", val, d)
           v == IF Truthy(val) THEN val ELSE EmptyStr
       IN IF v = Str(M1.value) THEN M1
          ELSE LET M2 == Logged([M1 EXCEPT !.value = v.s], "write", v, d)
                   M3 == [M2 EXCEPT !.log = Append(@, Entry("trigger", v, M2.cp, d))]
               IN deliverM(M3, "change", subs.change, r, d + 1)

\* update(), lines 202-221.
updateM(M, r, d) ==
  IF ~hasInput THEN M
  ELSE LET M1 == Logged(M, "update", Null, d)
       IN IF preventsUpdate(M1) THEN M1
          ELSE setValueM(M1, formatted(M1), r, d + 1)

\* colorpicker.setValue(val): the widget's color-setting entry point.
cpSetValueM(M, val, r, d) ==
  LET M1 == Logged(M, "colorpicker.setValue", val, d)
      M2 == [M1 EXCEPT !.cp = r.cp]
  IN IF r.upd THEN updateM(M2, r, d + 1) ELSE M2

handlerMAlways(M, kind, r, d) ==
  IF d > MaxDepth THEN Logged(M, "overflow", Null, d)
  ELSE LET alias == IF kind = "change" THEN "input.change" ELSE "input.keyup"
           M1 == Logged([M EXCEPT !.lastEvent = [alias |-> alias, e |-> kind]],
                        IF kind = "change" THEN "onchange" ELSE "onkeyup", Null, d)
       IN cpSetValueM(M1, getValueOf(M1), r, d + 1)

handlerMLate(M, kind, r, d) ==
  IF d > MaxDepth THEN Logged(M, "overflow", Null, d)
  ELSE LET alias == IF kind = "change" THEN "input.change" ELSE "input.keyup"
           M1 == Logged(M, IF kind = "change" THEN "onchange" ELSE "onkeyup", Null, d)
           val == getValueOf(M1)
           M2 == IF val # formatted(M1) THEN cpSetValueM(M1, val, r, d + 1) ELSE M1
       IN [M2 EXCEPT !.lastEvent = [alias |-> alias, e |-> kind]]

handlerMRaw(M, kind, r, d) ==
  IF d > MaxDepth THEN Logged(M, "overflow", Null, d)
  ELSE LET alias == IF kind = "change" THEN "input.change" ELSE "input.keyup"
           M1 == Logged([M EXCEPT !.lastEvent = [alias |-> alias, e |-> kind]],
                        IF kind = "change" THEN "onchange" ELSE "onkeyup", Null, d)
           val == getValueOf(M1)
       IN IF val # M1.cp.safe THEN cpSetValueM(M1, val, r, d + 1) ELSE M1

handlerMWrites(M, kind, r, d) ==
  IF d > MaxDepth THEN Logged(M, "overflow", Null, d)
  ELSE LET alias == IF kind = "change" THEN "input.change" ELSE "input.keyup"
           M1 == Logged([M EXCEPT !.lastEvent = [alias |-> alias, e |-> kind],
                                  !.value = formatted(M).s],
                        IF kind = "change" THEN "onchange" ELSE "onkeyup", Null, d)
           val == getValueOf(M1)
       IN IF val # formatted(M1) THEN cpSetValueM(M1, val, r, d + 1) ELSE M1

\* onchange(e) and onkeyup(e), lines 230-257.
handlerM(M, kind, r, d) ==
  IF d > MaxDepth THEN Logged(M, "overflow", Null, d)
  ELSE LET alias == IF kind = "change" THEN "input.change" ELSE "input.keyup"
           M1 == Logged([M EXCEPT !.lastEvent = [alias |-> alias, e |-> kind]],
                        IF kind = "change" THEN "onchange" ELSE "onkeyup", Null, d)
           val == getValueOf(M1)
       IN IF val # formatted(M1) THEN cpSetValueM(M1, val, r, d + 1) ELSE M1

\* ------------------------------------------------------------ construction
ElementKinds == {"self", "found", "miss", "none"}

Element(kind) == [t |-> "element", s |-> << kind >>]

resolveInputAnyMatch(kind) == kind \in {"self", "found", "miss"}

\* Lines 26-31: the widget's element if it is an input, else what
\* options.input finds in it, else false; an empty match is false too.
resolveInput(kind) == kind \in {"self", "found"}

ValSeeds == FieldTexts
DataSeeds == {Null, Num, Str(<<"a">>), ColorObj(<<>>), ColorObj(<<"#", "a">>)}
AttrSeeds == {Null, Str(<<"#", "a">>)}

RECURSIVE pickSeedLast(_, _)
pickSeedLast(cands, val) ==
  IF cands = <<>> THEN val
  ELSE pickSeedLast(Tail(cands), IF Truthy(Head(cands)) THEN Head(cands) ELSE val)

\* Lines 60-71: the candidates in order; one is taken only while val is ''.
RECURSIVE pickSeed(_, _)
pickSeed(cands, val) ==
  IF cands = <<>> THEN val
  ELSE pickSeed(Tail(cands),
                IF Truthy(Head(cands)) /\ val = EmptyStr THEN Head(cands) ELSE val)

initValueFormatted(cands) ==
  LET val == pickSeed(cands, EmptyStr)
  IN IF val.t = "Color" \/ (IsString(val) /\ val # EmptyStr)
     THEN getFormattedColor(Str(val.s), cp.safe, useHashPrefix, resolver)
     ELSE EmptyStr

\* _initValue(), lines 60-79: the text written to the field.
initValue(cands) ==
  LET val == pickSeed(cands, EmptyStr)
  IN IF val.t = "Color"
     THEN getFormattedColor(Str(val.s), cp.safe, useHashPrefix, resolver)
     ELSE IF ~IsString(val) THEN EmptyStr ELSE val

\* ---------------------------------------------------------------- actions
MainResolvers == {"same"}
MainHashPrefix == {"false", "undefined"}

Init ==
  /\ pc = "new"
  /\ input = FALSE
  /\ value = <<>>
  /\ disabled = FALSE
  /\ subs = [keyup |-> 0, change |-> 0]
  /\ useHashPrefix \in MainHashPrefix
  /\ autoInputFallback \in OptionValues
  /\ resolver \in MainResolvers
  /\ lastEvent = NoEvent
  /\ cp \in CpStates
  /\ log = <<>>

\* The candidates _initValue reads; none is read without a field.
Candidates(kind) ==
  IF resolveInput(kind)
  THEN { << Str(v), dt, at >> : v \in ValSeeds, dt \in DataSeeds, at \in AttrSeeds }
  ELSE { <<>> }

RECURSIVE SeedLog(_)
SeedLog(cands) ==
  IF cands = <<>> THEN <<>>
  ELSE << Entry("candidate", Head(cands), NoColor, 0) >> \o SeedLog(Tail(cands))

\* new InputHandler(root, colorpicker), lines 14-34.
Construct(kind, cands) ==
  /\ pc = "new"
  /\ pc' = "ready"
  /\ input' = resolveInput(kind)
  /\ value' = IF resolveInput(kind) THEN initValue(cands).s ELSE value
  /\ log' = << Entry("construct", Element(kind), NoColor, 0) >> \o SeedLog(cands)
  /\ UNCHANGED << disabled, subs, options, lastEvent, cp >>

\* bind(), lines 36-46.
Bind ==
  /\ pc = "ready"
  /\ subs.keyup < MaxBind /\ subs.change < MaxBind
  /\ subs' = IF hasInput
             THEN [keyup |-> subs.keyup + 1, change |-> subs.change + 1]
             ELSE subs
  /\ log' = <<>>
  /\ UNCHANGED << pc, input, value, disabled, options, lastEvent, cp >>

UnbindKeyupOnly ==
  /\ pc = "ready"
  /\ subs' = IF hasInput THEN [keyup |-> 0, change |-> subs.change] ELSE subs
  /\ log' = <<>>
  /\ UNCHANGED << pc, input, value, disabled, options, lastEvent, cp >>

\* unbind(), lines 48-53.
Unbind ==
  /\ pc = "ready"
  /\ subs' = IF hasInput THEN [keyup |-> 0, change |-> 0] ELSE subs
  /\ log' = <<>>
  /\ UNCHANGED << pc, input, value, disabled, options, lastEvent, cp >>

Args == { Str(s) : s \in FieldTexts } \cup {Null}

\* The effect of a synchronous call that ended in M.
Effect(M) ==
  /\ value' = M.value
  /\ lastEvent' = M.lastEvent
  /\ cp' = M.cp
  /\ log' = M.log
  /\ UNCHANGED << pc, input, disabled, subs, options >>

Stay == [cp |-> cp, upd |-> FALSE]

Forwards(M) == \E i \in 1..Len(M.log) : M.log[i].k = "colorpicker.setValue"

\* The widget's reactions worth telling apart: how it reacts shows only in a
\* call that reaches colorpicker.setValue.
ReactionsTo(M) == IF Forwards(M) THEN Reactions ELSE { Stay }

\* setValue(val), lines 104-131.
SetValue(v, r) ==
  /\ pc = "ready"
  /\ Effect(setValueM(Now, v, r, 0))

\* setValue(val) called twice in a row with the same argument.
SetValueTwice(v, r) ==
  /\ pc = "ready"
  /\ Effect(setValueM(setValueM(Now, v, r, 0), v, r, 0))

DisableNotifying ==
  /\ pc = "ready"
  /\ disabled' = IF hasInput THEN TRUE ELSE disabled
  /\ log' = IF hasInput THEN << Entry("trigger", Str(value), cp, 0) >> ELSE <<>>
  /\ UNCHANGED << pc, input, value, subs, options, lastEvent, cp >>

\* disable(), lines 179-183.
Disable ==
  /\ pc = "ready"
  /\ disabled' = IF hasInput THEN TRUE ELSE disabled
  /\ log' = <<>>
  /\ UNCHANGED << pc, input, value, subs, options, lastEvent, cp >>

\* enable(), lines 191-195.
Enable ==
  /\ pc = "ready"
  /\ disabled' = IF hasInput THEN FALSE ELSE disabled
  /\ log' = <<>>
  /\ UNCHANGED << pc, input, value, subs, options, lastEvent, cp >>

\* update(), lines 202-221.
Update(r) ==
  /\ pc = "ready"
  /\ Effect(updateM(Now, r, 0))

\* onchange(e) called as a method, lines 230-239.
OnChange(r) ==
  /\ pc = "ready"
  /\ Effect(handlerM(Now, "change", r, 0))

\* onkeyup(e) called as a method, lines 248-257.
OnKeyup(r) ==
  /\ pc = "ready"
  /\ Effect(handlerM(Now, "keyup", r, 0))

Typed(t) == [Now EXCEPT !.value = t,
                        !.log = << Entry("user", Str(t), NoColor, 0) >>]

\* The user edits the enabled field to t; the browser fires keyup or change
\* on it, which jQuery delivers to the handlers bind() subscribed.
UserEvent(kind, t, r) ==
  /\ pc = "ready"
  /\ hasInput /\ ~disabled
  /\ Effect(deliverM(Typed(t), kind, subs[kind], r, 0))

\* The widget's color changes from another part of the widget, which may
\* record its own interaction in lastEvent.
WidgetColor(c, keep) ==
  /\ pc = "ready"
  /\ cp' = c
  /\ lastEvent' = IF keep THEN lastEvent ELSE NoEvent
  /\ log' = <<>>
  /\ UNCHANGED << pc, input, value, disabled, subs, options >>

Next ==
  \/ \E kind \in ElementKinds : \E cands \in Candidates(kind) : Construct(kind, cands)
  \/ Bind
  \/ Unbind
  \/ \E v \in Args : \E r \in ReactionsTo(setValueM(Now, v, Stay, 0)) : SetValue(v, r)
  \/ \E v \in Args : \E r \in ReactionsTo(setValueM(Now, v, Stay, 0)) : SetValueTwice(v, r)
  \/ Disable
  \/ Enable
  \/ \E r \in ReactionsTo(updateM(Now, Stay, 0)) : Update(r)
  \/ \E r \in ReactionsTo(handlerM(Now, "change", Stay, 0)) : OnChange(r)
  \/ \E r \in ReactionsTo(handlerM(Now, "keyup", Stay, 0)) : OnKeyup(r)
  \/ \E kind \in {"keyup", "change"} : \E t \in FieldTexts :
       \E r \in ReactionsTo(deliverM(Typed(t), kind, subs[kind], Stay, 0)) :
         UserEvent(kind, t, r)
  \/ \E c \in CpStates : \E keep \in BOOLEAN : WidgetColor(c, keep)

Spec == Init /\ [][Next]_vars


\* ------------------------------------------- getFormattedColor on its own
\* The formatting helper applied to every argument, safe color string,
\* option value and resolver behaviour, those outside the resolver's
\* string contract included.
FmtSafeStrings == StrVals \cup {Null}

InitFmt ==
  /\ pc = "ready"
  /\ input \in BOOLEAN
  /\ value = <<>>
  /\ disabled = FALSE
  /\ subs = [keyup |-> 0, change |-> 0]
  /\ useHashPrefix \in OptionValues
  /\ autoInputFallback = "undefined"
  /\ resolver \in Resolvers
  /\ lastEvent = NoEvent
  /\ cp \in [safe : FmtSafeStrings, invalid : {FALSE}]
  /\ log = <<>>

FmtArgs == StrVals \cup {Null}

\* getFormattedColor(val), lines 141-155.
GetFormattedColor(raw) ==
  /\ pc = "ready"
  /\ log' = << Entry("getFormattedColor", raw, NoColor, 0),
               Entry("return", getFormattedColor(raw, cp.safe, useHashPrefix, resolver),
                     NoColor, 0) >>
  /\ UNCHANGED << pc, input, value, disabled, subs, options, lastEvent, cp >>

NextFmt == \E raw \in FmtArgs : GetFormattedColor(raw)

SpecFmt == InitFmt /\ [][NextFmt]_vars

\* ------------------------------------------------------- reading the log
Entries(l, k) == { i \in 1..Len(l) : l[i].k = k }

\* The entries of kind k made by the outermost call itself.
Own(l, k) == { i \in 1..Len(l) : l[i].k = k /\ l[i].d = 0 }

Starts(l, k) == Len(l) >= 1 /\ l[1].k = k /\ l[1].d = 0

Norm(v) == IF Truthy(v) THEN v ELSE EmptyStr

Max(S) == CHOOSE x \in S : \A y \in S : y <= x
Min(S) == CHOOSE x \in S : \A y \in S : x <= y

\* The field's text after the first n entries of l, from text v0.
FieldAfter(l, n, v0) ==
  LET w == { i \in 1..n : l[i].k = "write" }
  IN IF w = {} THEN v0 ELSE l[Max(w)].v.s

\* The synchronous dispatch ends within MaxDepth nested calls.
NoOverflow == Entries(log, "overflow") = {}

\* ------------------------------------------------------------------ C1
\* C1: update() with a field writes nothing (no setValue call, no write, no
\* notification) when autoInputFallback is not true and the color is invalid
\* or the last interaction alias is "input.keyup"; in every other case it
\* calls setValue with getFormattedColor().
UpdateSuppressed ==
  /\ autoInputFallback # "true"
  /\ (cp.invalid \/ lastEvent.alias = "input.keyup")

C1_UpdateSuppression ==
  [][ (hasInput /\ Starts(log', "update")) =>
        IF UpdateSuppressed
        THEN /\ log' = << Entry("update", Null, NoColor, 0) >>
             /\ value' = value
        ELSE /\ Len(log') >= 2
             /\ log'[2].k = "setValue"
             /\ log'[2].v = getFormattedColor(Null, cp.safe, useHashPrefix, resolver)
             /\ value' = Norm(log'[2].v).s ]_vars

\* A keyup-suppressed update: option false, alias "input.keyup", a valid
\* color the field does not show.
C1_Witness ==
  /\ log = << Entry("update", Null, NoColor, 0) >>
  /\ autoInputFallback = "false"
  /\ lastEvent.alias = "input.keyup"
  /\ ~cp.invalid
  /\ Str(value) # formatted(Now)

\* ------------------------------------------------------------------ C2
TwiceLog(l) == Cardinality(Own(l, "setValue")) = 2

SecondCall(l) == Max(Own(l, "setValue"))

FirstOwn(l, k) == { i \in Own(l, k) : i < SecondCall(l) }
SecondOwn(l, k) == { i \in Own(l, k) : i > SecondCall(l) }

\* C2 as stated: setValue(v) twice in a row makes exactly one write and one
\* notification in the first call and none in the second, for every v and
\* every field state.
C2_AsStated ==
  TwiceLog(log) =>
    /\ Cardinality(FirstOwn(log, "write")) = 1
    /\ Cardinality(FirstOwn(log, "trigger")) = 1
    /\ SecondOwn(log, "write") = {}
    /\ SecondOwn(log, "trigger") = {}

\* C2: of setValue(v) called twice in a row, the first call makes one write
\* and one notification if v, normalized, differs from the field's text and
\* none if it equals it; the second makes none whenever the field still
\* holds v when it starts.
C2_SetValueTwice ==
  [][ (TwiceLog(log') /\ Starts(log', "setValue")) =>
        LET v == Norm(log'[1].v)
            n == IF v # Str(value) THEN 1 ELSE 0
        IN /\ Cardinality(FirstOwn(log', "write")) = n
           /\ Cardinality(FirstOwn(log', "trigger")) = n
           /\ (FieldAfter(log', SecondCall(log') - 1, value) = v.s =>
                 /\ SecondOwn(log', "write") = {}
                 /\ SecondOwn(log', "trigger") = {}) ]_vars

\* Two calls in a row, the first of which wrote and the second did not.
C2_Witness ==
  /\ TwiceLog(log)
  /\ Cardinality(FirstOwn(log, "write")) = 1
  /\ SecondOwn(log, "write") = {}
  /\ SecondCall(log) = Len(log)

\* ------------------------------------------------------------------ C3
\* C3: one setValue(candidate) with a field: if the candidate, normalized,
\* equals the field's text, nothing is written and no notification emitted;
\* otherwise the candidate is written and exactly one notification is
\* emitted, whose value is the written candidate and whose color is the
\* widget's current color.
C3_SetValueOnce ==
  [][ (hasInput /\ Starts(log', "setValue") /\ ~TwiceLog(log')) =>
        LET v == Norm(log'[1].v)
        IN IF v = Str(value)
           THEN /\ Len(log') = 1
                /\ value' = value
           ELSE /\ Len(log') >= 3
                /\ log'[2] = Entry("write", v, NoColor, 0)
                /\ log'[3] = Entry("trigger", v, cp, 0)
                /\ Own(log', "write") = {2}
                /\ Own(log', "trigger") = {3} ]_vars

\* setValue(null) on a non-empty field: '' is written and notified.
C3_Witness ==
  /\ Starts(log, "setValue")
  /\ log[1].v = Null
  /\ Len(log) >= 3
  /\ log[3].k = "trigger"
  /\ log[3].v = EmptyStr

\* ------------------------------------------------------------------ C4
Forwarded(l) == Entries(l, "colorpicker.setValue")

HandledOnce(l, t, f) ==
  IF t # f
  THEN /\ Cardinality(Forwarded(l)) = 1
       /\ \A i \in Forwarded(l) : l[i].v = t
  ELSE Forwarded(l) = {}

\* C4: when onchange or onkeyup handles an event on the field (called as a
\* method, or delivered to the one subscription bind() made) and the field's
\* text t differs from getFormattedColor(), colorpicker.setValue is called
\* with t exactly once, nested notifications included; when t equals it,
\* colorpicker.setValue is not called.
C4_Delegation ==
  [][ /\ (hasInput /\ (Starts(log', "onchange") \/ Starts(log', "onkeyup"))) =>
           HandledOnce(log', Str(value), formatted(Now))
      /\ (Starts(log', "user") /\ Len(log') >= 2 /\ Own(log', "onchange") \cup Own(log', "onkeyup") = {2}) =>
           HandledOnce(log', log'[1].v, formatted(Now)) ]_vars

\* A typed text forwarded once although the widget's update() rewrote the
\* field and notified the subscribed onchange again.
C4_Witness ==
  /\ Starts(log, "user")
  /\ Cardinality(Forwarded(log)) = 1
  /\ Entries(log, "trigger") # {}
  /\ Cardinality(Entries(log, "onchange")) >= 2


\* ------------------------------------------------------------------ C5
\* A step of another part of the widget, not of the synchronizer.
WidgetStep == \E c \in CpStates : \E keep \in BOOLEAN : WidgetColor(c, keep)

\* C5: without a field no operation of the synchronizer changes the Last
\* Interaction Record or calls colorpicker.setValue, the handlers onchange
\* and onkeyup included.
C5_NoFieldNoOp ==
  [][ (pc = "ready" /\ ~hasInput /\ ~WidgetStep) =>
        /\ lastEvent' = lastEvent
        /\ Forwarded(log') = {} ]_vars

\* ------------------------------------------------------------------ C6
Observable == << value, disabled, subs, lastEvent, cp >>

PublicCall ==
  \/ Bind
  \/ Unbind
  \/ Disable
  \/ Enable
  \/ \E v \in Args : SetValue(v, Stay)
  \/ \E v \in Args : SetValueTwice(v, Stay)
  \/ Update(Stay)

\* C6: constructed without a resolvable field, getValue() returns false, and
\* setValue, update, disable, enable, bind and unbind leave the Last
\* Interaction Record, the subscriptions and the widget's color as they
\* were, emit no notification and forward nothing to the widget.
C6_NoFieldFrame ==
  /\ []((pc = "ready" /\ ~hasInput) => getValue = False)
  /\ [][ (pc = "ready" /\ ~hasInput /\ PublicCall) =>
           /\ UNCHANGED Observable
           /\ log' = <<>> ]_vars

\* A call made on a synchronizer that was constructed without a field.
C6_Witness ==
  /\ pc = "ready"
  /\ ~hasInput
  /\ log = <<>>
  /\ getValue = False

\* --------------------------------------------------------------- C7, C8
Constructed(l) == Starts(l, "construct") /\ Len(l) = 4

Cands(l) == << l[2].v, l[3].v, l[4].v >>

NonEmpty(l) == { i \in 1..3 : Truthy(Cands(l)[i]) }

\* The first non-empty candidate in the order value, data, attribute.
Seed(l) == Cands(l)[Min(NonEmpty(l))]

\* C7 as stated: after construction from a string seed s the field holds
\* getFormattedColor(s), whatever useHashPrefix is.
C7_AsStated ==
  (Constructed(log) /\ NonEmpty(log) # {} /\ IsString(Seed(log))) =>
    Str(value) = getFormattedColor(Seed(log), cp.safe, useHashPrefix, resolver)

\* C7: after construction from a string seed s the field holds s itself,
\* unformatted; only a color-model seed goes through getFormattedColor.
C7_StringSeedVerbatim ==
  (Constructed(log) /\ NonEmpty(log) # {} /\ IsString(Seed(log))) =>
    Str(value) = Seed(log)

\* useHashPrefix false and a seed with a leading '#': the field keeps it.
C7_Witness ==
  /\ Constructed(log)
  /\ NonEmpty(log) # {}
  /\ Seed(log) = Str(<<"#", "a">>)
  /\ useHashPrefix = "false"
  /\ value = <<"#", "a">>

\* C8: the seed is the first non-empty candidate in the order field value,
\* color data entry, data-color attribute; a string seed is written as it
\* is, a color-model seed formatted, and any other seed, like no seed at
\* all, leaves the field empty.
C8_SeedPriority ==
  Constructed(log) =>
    IF NonEmpty(log) = {} THEN value = <<>>
    ELSE CASE IsString(Seed(log)) -> Str(value) = Seed(log)
           [] Seed(log).t = "Color" ->
                Str(value) = getFormattedColor(Str(Seed(log).s), cp.safe,
                                               useHashPrefix, resolver)
           [] OTHER -> value = <<>>

\* An empty field value, a number as color data and a data-color attribute:
\* the number is the seed, and the field is left empty.
C8_Witness ==
  /\ Constructed(log)
  /\ Cands(log) = << EmptyStr, Num, Str(<<"#", "a">>) >>
  /\ value = <<>>

\* --------------------------------------------------------------- C9, C10
Returned(l) == Starts(l, "getFormattedColor") /\ Len(l) = 2

\* What getFormattedColor hands to the resolver.
FmtSource(l) == IF Truthy(l[1].v) THEN l[1].v ELSE cp.safe

RECURSIVE StripLeadingHashes(_)
StripLeadingHashes(s) ==
  IF s # <<>> /\ Head(s) = "#" THEN StripLeadingHashes(Tail(s)) ELSE s

\* C9: with useHashPrefix false the result is the resolved string without
\* any of its leading '#', so it never begins with '#'; otherwise it is the
\* resolved string unchanged.
C9_HashStripping ==
  (Returned(log) /\ Truthy(FmtSource(log))
     /\ IsString(resolveColor(resolver, FmtSource(log)))) =>
    LET res == resolveColor(resolver, FmtSource(log))
    IN IF useHashPrefix = "false"
       THEN /\ log[2].v = Str(StripLeadingHashes(res.s))
            /\ (log[2].v.s = <<>> \/ Head(log[2].v.s) # "#")
       ELSE log[2].v = res

\* C10: getFormattedColor never raises and always returns a string: the
\* empty string when there is neither an argument nor a safe color string,
\* and when the resolver returns a falsy or non-string result.
C10_AlwaysString ==
  Returned(log) =>
    /\ IsString(log[2].v)
    /\ ~Truthy(FmtSource(log)) => log[2].v = EmptyStr
    /\ (Truthy(FmtSource(log))
          /\ ~(IsString(resolveColor(resolver, FmtSource(log)))
                 /\ Truthy(resolveColor(resolver, FmtSource(log))))) =>
         log[2].v = EmptyStr


\* ------------------------------------------------------------------ C11
\* C11: getValue() is false exactly when there is no field; with a field it
\* is the field's text, the empty string for an empty field, so that no
\* field and an empty field are told apart in every reachable state.
C11_GetValueSentinel ==
  pc = "ready" =>
    /\ (getValue = False) <=> ~hasInput
    /\ hasInput => (getValue = Str(value) /\ IsString(getValue))

\* An empty field after some call: getValue() is '' and not false.
C11_Witness ==
  /\ pc = "ready"
  /\ hasInput
  /\ value = <<>>
  /\ log # <<>>
  /\ ~Starts(log, "construct")
  /\ getValue = EmptyStr
  /\ getValue # False

\* ------------------------------------------------------------------ C12
Unbound == [keyup |-> 0, change |-> 0]

HandlerName(kind) == IF kind = "change" THEN "onchange" ELSE "onkeyup"

OtherKind(kind) == IF kind = "change" THEN "keyup" ELSE "change"

\* C12: with a field, unbind() releases the keyup and the change
\* subscription together, after which no event on the field reaches a
\* handler; unbind() on an unbound synchronizer changes nothing; after bind()
\* on an unbound synchronizer each keyup and each change event invokes its
\* handler exactly once.
C12_BindUnbind ==
  /\ [][ (hasInput /\ Unbind) =>
            /\ subs' = Unbound
            /\ (subs = Unbound => UNCHANGED << value, disabled, subs, lastEvent, cp >>) ]_vars
  /\ [][ (hasInput /\ Bind /\ subs = Unbound) =>
            subs' = [keyup |-> 1, change |-> 1] ]_vars
  /\ [][ Starts(log', "user") =>
            /\ subs = Unbound => (Len(log') = 1 /\ lastEvent' = lastEvent)
            /\ subs = [keyup |-> 1, change |-> 1] =>
                 /\ Cardinality(Own(log', "onkeyup")) + Cardinality(Own(log', "onchange")) = 1
                 /\ \A kind \in {"keyup", "change"} :
                      LET M == deliverM(Typed(log'[1].v.s), kind, subs[kind], Stay, 0)
                      IN  /\ Cardinality(Own(M.log, HandlerName(kind))) = 1
                          /\ Own(M.log, HandlerName(OtherKind(kind))) = {} ]_vars

\* A keyup delivered to the one subscription bind() made.
C12_Witness ==
  /\ Starts(log, "user")
  /\ subs = [keyup |-> 1, change |-> 1]
  /\ Cardinality(Own(log, "onkeyup")) = 1
  /\ Own(log, "onchange") = {}

KeyupHandled(l) ==
  \/ Starts(l, "onkeyup")
  \/ Starts(l, "user") /\ Own(l, "onkeyup") # {}

\* The field's text when the handling of the latest call began.
TextAtStart(l, v0) == IF Starts(l, "user") THEN l[1].v.s ELSE v0

\* C14: onkeyup records input.keyup in the Last Interaction Record before it
\* compares the text and before it calls colorpicker.setValue; so with a
\* field and autoInputFallback not true every update() the widget runs while
\* a keyup is handled is suppressed (no setValue call, no write, no
\* notification), and when the handling ends the field holds exactly the
\* text it held when the handling began, the text the user typed.
C14_KeyupKeepsText ==
  [][ (hasInput /\ autoInputFallback # "true" /\ KeyupHandled(log')) =>
        /\ Entries(log', "setValue") = {}
        /\ Entries(log', "write") = {}
        /\ Entries(log', "trigger") = {}
        /\ \A i \in Forwarded(log') :
             /\ log'[i - 1].k = "onkeyup"
             /\ log'[i - 1].d = log'[i].d - 1
        /\ value' = TextAtStart(log', value)
        /\ lastEvent'.alias = "input.keyup" ]_vars

\* A typed text that differs from the valid formatted color, whose keyup
\* made the widget call update() while the record before it was no keyup.
C14_Witness ==
  /\ hasInput
  /\ autoInputFallback = "false"
  /\ Starts(log, "user")
  /\ Own(log, "onkeyup") # {}
  /\ Entries(log, "update") # {}
  /\ ~cp.invalid
  /\ Str(value) # formatted(Now)
  /\ value = <<"a">>

\* ------------------------------------------------------------------ C15
\* C15: with a field and the handlers bound, one update() from the model
\* side ends within the dispatch bound after at most one setValue call and
\* at most one change notification; each onchange that notification reaches
\* finds the field equal to getFormattedColor() and does not call
\* colorpicker.setValue, so no further update() follows.
C15_NoFeedbackLoop ==
  (hasInput /\ Starts(log, "update")) =>
    /\ Entries(log, "overflow") = {}
    /\ Cardinality(Entries(log, "update")) = 1
    /\ Cardinality(Entries(log, "setValue")) <= 1
    /\ Cardinality(Entries(log, "trigger")) <= 1
    /\ Forwarded(log) = {}
    /\ Entries(log, "onkeyup") = {}
    /\ Cardinality(Entries(log, "onchange")) =
         subs.change * Cardinality(Entries(log, "trigger"))
    /\ Entries(log, "trigger") # {} => Str(value) = formatted(Now)

\* An update() that wrote the field and notified the bound onchange.
C15_Witness ==
  /\ hasInput
  /\ subs.change = 1
  /\ Starts(log, "update")
  /\ Cardinality(Entries(log, "trigger")) = 1
  /\ Cardinality(Entries(log, "onchange")) = 1
  /\ Forwarded(log) = {}

\* ------------------------------------------------------------------ C16
\* C16: after construction the synchronizer writes the field only inside
\* setValue: every write directly follows the setValue call that made it,
\* the field ends with the text of the last such write, and a call without
\* one (bind, unbind, disable, enable, a suppressed update(), a handler that
\* forwards nothing or whose widget writes nothing back) leaves the text as
\* it was when the call began.
C16_WritesOnlyInSetValue ==
  [][ pc = "ready" =>
        /\ \A i \in Entries(log', "write") :
             /\ i > 1
             /\ log'[i - 1].k = "setValue"
             /\ log'[i - 1].d = log'[i].d
        /\ value' = FieldAfter(log', Len(log'), TextAtStart(log', value))
        /\ Entries(log', "write") = {} => value' = TextAtStart(log', value) ]_vars

\* An onchange whose forwarded text made the widget update the field: the
\* write is setValue's, nested in the handler's call.
C16_Witness ==
  /\ hasInput
  /\ Starts(log, "onchange")
  /\ Entries(log, "write") # {}
  /\ \A i \in Entries(log, "write") : log[i].d > 0 /\ log[i - 1].k = "setValue"
  /\ value = log[Max(Entries(log, "write"))].v.s


\* ------------------------------------------------------------------ C17
\* The latest call is a setValue() or an update() from the model side.
Programmatic(l) == Starts(l, "setValue") \/ Starts(l, "update")

\* C17: with a field the alias is changed only when an event of the user is
\* handled: it is input.change after onchange and input.keyup after onkeyup,
\* and a setValue() or update() from the model side leaves it as it was,
\* handlers bound or not.
C17_AliasOnlyByUser ==
  [][ (pc = "ready" /\ hasInput) =>
        /\ Starts(log', "onchange") => lastEvent'.alias = "input.change"
        /\ Starts(log', "onkeyup") => lastEvent'.alias = "input.keyup"
        /\ Programmatic(log') => lastEvent'.alias = lastEvent.alias ]_vars

\* ------------------------------------------------------------------ C18
\* C18: whether there is a field is fixed by the constructor: an element
\* that is an input, or one found by the options.input selector, is the
\* field; a selector that matches nothing, like no selector, leaves the
\* synchronizer without a field; and hasInput() returns the same value after
\* every later bind, unbind, setValue, update, disable, enable, onchange,
\* onkeyup and event.
C18_FieldFixed ==
  /\ [](Starts(log, "construct") =>
          (hasInput <=> log[1].v \in {Element("self"), Element("found")}))
  /\ [][ pc = "ready" => hasInput' = hasInput ]_vars

\* A synchronizer constructed with a selector that matched nothing.
C18_Witness ==
  /\ pc = "ready"
  /\ Starts(log, "construct")
  /\ log[1].v = Element("miss")
  /\ ~hasInput

====
